---- MODULE Spec2Model ----
(***************************************************************************)
(* A model of src/app.py: FrameIOFeedbackExporter.                         *)
(*                                                                         *)
(*   SpecRequest : one call of make_request (rate limit, retries, backoff) *)
(*   SpecStore   : save_progress / load_progress on the checkpoint file    *)
(*   Spec        : generate_report (walk, filter, organize, feedback loop) *)
(*   SpecContents: one call of get_folder_contents, request by request     *)
(*   SpecWalk    : one call of process_folder, also on folders in a cycle  *)
(*   SpecAuthor  : one call of process_comment_author                      *)
(*   SpecOverlay : the annotations of one comment, processed and overlaid  *)
(*   SpecPath    : one call of get_folder_path, call by call, with fairness*)
(*                                                                         *)
(* Strings whose characters matter (names, paths) are sequences of         *)
(* one-character strings.  Durations: request_delay in milliseconds,       *)
(* backoff waits in seconds, as in the source.                             *)
(***************************************************************************)
EXTENDS Integers, Sequences, FiniteSets, TLC

VARIABLES
    \* ---- make_request (SpecRequest)
    max_retries,      \* self.max_retries
    retry_delay,      \* self.retry_delay (seconds)
    mr_pc,            \* "idle" | "loop" | "returned" | "raised" | "none"
    mr_attempt,       \* the loop variable `attempt`
    mr_log,           \* what the call did so far: sleeps and HTTP requests, in order
    mr_resps,         \* the responses the attempts received, in order
    \* ---- the checkpoint files and their callers (SpecStore, Spec)
    files,            \* project id -> the file frameio_progress_<id>.pkl on disk
    st_pc,            \* "idle" | "saving": a save_progress call in flight
    st_proj,          \* the project id of the save in flight
    st_buf,           \* bytes of the save in flight not yet written
    st_clock,         \* datetime.now(), counted in saves
    st_loaded,        \* what the last load_progress call did
    st_last,          \* project id -> the last checkpoint saved completely
    st_new,           \* project id -> the checkpoint of the latest save call
    st_cut,           \* project id -> the latest save call was interrupted
    \* ---- generate_report (Spec)
    include_old_folders,  \* self.include_old_folders
    pc,               \* where generate_report stands
    run,              \* the number of this run of generate_report
    nfail,            \* requests that failed so far (all runs)
    ncrash,           \* runs stopped from outside so far
    rl_links,         \* get_all_assets: review_links
    rl_idx,           \* get_all_assets: position in review_links
    rl_items,         \* get_all_assets: items of the current review link
    it_idx,           \* get_all_assets: position in items
    stack,            \* the process_folder calls in progress, innermost last
    all_assets,       \* get_all_assets: all_assets (asset ids)
    feedback_data,    \* generate_report: feedback_data as loaded
    processed_ids,    \* generate_report: processed_ids as loaded
    to_process,       \* generate_report: assets_to_process
    organized,        \* organize_assets_by_folder: organized_assets
    org_idx,          \* organize_assets_by_folder: position in assets
    proc_idx,         \* generate_report: position in organized_assets
    folder_feedback,  \* generate_report: folder_feedback
    err,              \* the exception that ended generate_report, "" if none
    \* ---- what the run did, for the claims
    fetched,          \* container id -> get_folder_contents calls in this run
    commented,        \* asset id -> get_asset_comments calls in this run
    previewed,        \* asset id -> get_asset_preview calls in this run
    walks,            \* the top-level process_folder calls of this run and their results
    completed,        \* asset ids whose loop iteration has finished in this run
    prev_completed,   \* asset ids whose loop iteration finished in earlier runs
    prev_end,         \* how the previous run ended: "" | "crash" | "end"
    fetch_failed,     \* container id -> get_folder_contents calls that failed in this run
    link_failed,      \* review links whose item listing failed in this run
    other_failed,     \* another request of get_all_assets failed in this run
    looked,           \* item id -> get_item_details calls of get_folder_path in this run
    previews,         \* the preview requests of this run: asset, outcome, what the call did
    \* ---- one call of get_folder_contents, request by request (SpecContents)
    fc_pc,            \* "idle" | "try" | "returned" | "raised"
    fc_folder,        \* the argument folder_id
    fc_idx,           \* position of the loop in `endpoints`
    fc_log,           \* the endpoints handed to make_request, in order
    fc_result,        \* the returned list
    fc_from,          \* position of the endpoint whose answer was returned, 0 if none
    fc_errors,        \* st.error calls of this call
    fc_attempts,      \* HTTP attempts of the make_request calls that have ended
    \* ---- one call of process_comment_author (SpecAuthor)
    au_pc,            \* "idle" | "called" | "returned" | "raised"
    au_comment,       \* the argument comment
    au_result,        \* the returned name
    \* ---- the annotations of one comment on their way to the report (SpecOverlay)
    an_pc,            \* "idle" | "called" | "processed" | "overlaid"
    an_input,         \* comment['annotations']
    an_data,          \* what process_comment_annotations returned
    an_svg,           \* what generate_svg_overlay returned for it
    \* ---- one call of get_folder_path, level by level (SpecPath)
    gp_pc,            \* "idle" | "call" | "unwind" | "returned"
    gp_chain,         \* the arguments of the calls in progress, innermost last
    gp_folders,       \* the keys of the dict `folders`
    gp_fail,          \* the item whose details request fails, NoId if none
    gp_why,           \* why the innermost call returned "/"
    gp_path           \* the path returned by the call that returned last

mr_vars == <<max_retries, retry_delay, mr_pc, mr_attempt, mr_log, mr_resps>>
st_vars == <<files, st_pc, st_proj, st_buf, st_clock, st_loaded, st_last, st_new, st_cut>>

gr_vars == <<include_old_folders, pc, run, nfail, ncrash, rl_links, rl_idx, rl_items,
             it_idx, stack, all_assets, feedback_data, processed_ids, to_process,
             organized, org_idx, proc_idx, folder_feedback, err>>
hist_vars == <<fetched, commented, previewed, walks, completed, prev_completed, prev_end,
               fetch_failed, link_failed, other_failed, looked, previews>>

fc_vars == <<fc_pc, fc_folder, fc_idx, fc_log, fc_result, fc_from, fc_errors, fc_attempts>>
au_vars == <<au_pc, au_comment, au_result>>

an_vars == <<an_pc, an_input, an_data, an_svg>>
gp_vars == <<gp_pc, gp_chain, gp_folders, gp_fail, gp_why, gp_path>>

vars == <<mr_vars, st_vars, gr_vars, hist_vars, fc_vars, au_vars, an_vars, gp_vars>>

-----------------------------------------------------------------------------
(* Bounds of the model *)

MaxRetriesBound == 4
MaxSaves == 2
MaxFaults == 2
MaxRuns == 2
MaxDepth == 4

-----------------------------------------------------------------------------
(* __init__ *)

request_delay_ms == 200
default_max_retries == 3
default_retry_delay == 5

-----------------------------------------------------------------------------
(* make_request *)

RECURSIVE Pow(_, _)
Pow(b, e) == IF e = 0 THEN 1 ELSE b * Pow(b, e - 1)

\* What one HTTP attempt can meet: a decoded response, an HTTP error status
\* (raise_for_status -> HTTPError), or a failure without a response
\* (ConnectionError / Timeout: a RequestException that is no HTTPError).
Responses == {"ok", "http429", "http404", "http500", "conn"}

IsHTTPError(r) == r \in {"http429", "http404", "http500"}

StatusCode(r) == CASE r = "http429" -> 429
                   [] r = "http404" -> 404
                   [] r = "http500" -> 500
                   [] OTHER         -> 0

EvDelay      == [kind |-> "request_delay", t |-> request_delay_ms]
EvHttp(a)    == [kind |-> "http", t |-> a]
EvBackoff(w) == [kind |-> "backoff", t |-> w]

\* wait_time = self.retry_delay * (4 ** attempt)
WaitTime(rd, attempt) == rd * Pow(4, attempt)

\* except HTTPError: status 429 and attempt < max_retries - 1
RetriesOnBug(r, attempt, mx) == IsHTTPError(r) /\ StatusCode(r) = 429 /\ attempt < mx
RetriesOnAnyStatus(r, attempt, mx) == IsHTTPError(r) /\ attempt < mx - 1
RetriesOn(r, attempt, mx) == IsHTTPError(r) /\ StatusCode(r) = 429 /\ attempt < mx - 1

\* time.sleep(self.request_delay) and the request of one attempt.
IssueBug(log, attempt) ==
    IF attempt = 0 THEN log \o <<EvDelay, EvHttp(attempt)>> ELSE Append(log, EvHttp(attempt))
Issue(log, attempt) == log \o <<EvDelay, EvHttp(attempt)>>

\* The call enters `for attempt in range(self.max_retries)`.
MRCall ==
    /\ mr_pc = "idle"
    /\ max_retries > 0
    /\ mr_pc' = "loop"
    /\ mr_attempt' = 0
    /\ UNCHANGED <<max_retries, retry_delay, mr_log, mr_resps>>

\* range(0) is empty: the loop body never runs and line 56 returns None.
MRCallEmpty ==
    /\ mr_pc = "idle"
    /\ max_retries <= 0
    /\ mr_pc' = "none"
    /\ UNCHANGED <<max_retries, retry_delay, mr_attempt, mr_log, mr_resps>>

\* One iteration of the loop: sleep(request_delay), the request, and what the
\* try/except does with its outcome.
MRAttempt ==
    /\ mr_pc = "loop"
    /\ \E r \in Responses :
        LET issued == Issue(mr_log, mr_attempt)
        IN  /\ mr_resps' = Append(mr_resps, r)
            /\ IF r = "ok"
               THEN /\ mr_pc' = "returned"
                    /\ mr_log' = issued
                    /\ UNCHANGED mr_attempt
               ELSE IF RetriesOn(r, mr_attempt, max_retries)
               THEN /\ mr_log' = Append(issued, EvBackoff(WaitTime(retry_delay, mr_attempt)))
                    /\ mr_attempt' = mr_attempt + 1
                    /\ mr_pc' = IF mr_attempt + 1 < max_retries THEN "loop" ELSE "none"
               ELSE /\ mr_pc' = "raised"
                    /\ mr_log' = issued
                    /\ UNCHANGED mr_attempt
    /\ UNCHANGED <<max_retries, retry_delay>>

MRInit ==
    /\ max_retries \in 0..MaxRetriesBound
    /\ retry_delay \in {1, default_retry_delay}
    /\ mr_pc = "idle"
    /\ mr_attempt = 0
    /\ mr_log = <<>>
    /\ mr_resps = <<>>

-----------------------------------------------------------------------------
(* The checkpoint file: pickle.dump / pickle.load *)

Projects == {"p1", "p2"}

\* The values the callers pass: feedback_data is a list of report entries
\* (each named by its asset id), processed_ids a set of asset ids.
\* One unit of the pickle byte stream.
Tok(tag, key, fd, ids, ts) == [tag |-> tag, key |-> key, fd |-> fd, ids |-> ids, ts |-> ts]
Mark(tag) == Tok(tag, "", <<>>, {}, 0)

\* A Python object as pickle sees it: a dict over some of the three keys, or an
\* object that is no dict (a list).
Obj(isdict, keys, fd, ids, ts) ==
    [isdict |-> isdict, keys |-> keys, fd |-> fd, ids |-> ids, ts |-> ts]

\* data = {'feedback_data': ..., 'processed_ids': ..., 'timestamp': ...}
CheckpointData(fd, ids, ts) == Obj(TRUE, {"feedback_data", "processed_ids", "timestamp"}, fd, ids, ts)

KeyOrder == <<"feedback_data", "processed_ids", "timestamp">>

RECURSIVE DumpItems(_, _)
DumpItems(obj, i) ==
    IF i > Len(KeyOrder) THEN <<>>
    ELSE LET k == KeyOrder[i]
             item == CASE k = "feedback_data" -> Tok("ITEM", k, obj.fd, {}, 0)
                       [] k = "processed_ids" -> Tok("ITEM", k, <<>>, obj.ids, 0)
                       [] OTHER               -> Tok("ITEM", k, <<>>, {}, obj.ts)
         IN  (IF k \in obj.keys THEN <<item>> ELSE <<>>) \o DumpItems(obj, i + 1)

\* pickle.dump(obj): the PROTO opcode, the FRAME opcode with the length of the
\* rest, the container, its items, the STOP opcode.  The pickler leaves the
\* frame out when the rest is shorter than the least frame size: an empty
\* container is written unframed.
PickleDump(obj) ==
    <<Mark("PROTO")>>
        \o (IF obj.isdict /\ obj.keys # {} THEN <<Mark("FRAME")>> ELSE <<>>)
        \o <<Mark(IF obj.isdict THEN "DICT" ELSE "LIST")>>
        \o (IF obj.isdict THEN DumpItems(obj, 1) ELSE <<>>)
        \o <<Mark("STOP")>>

RECURSIVE LoadItems(_, _)
LoadItems(bytes, acc) ==
    IF bytes = <<>> \/ Head(bytes).tag # "ITEM" THEN acc
    ELSE LET t == Head(bytes)
             nxt == CASE t.key = "feedback_data" -> [acc EXCEPT !.keys = @ \cup {t.key}, !.fd = t.fd]
                      [] t.key = "processed_ids" -> [acc EXCEPT !.keys = @ \cup {t.key}, !.ids = t.ids]
                      [] OTHER                   -> [acc EXCEPT !.keys = @ \cup {t.key}, !.ts = t.ts]
         IN  LoadItems(Tail(bytes), nxt)

\* pickle.load(f): the object, or the exception it raises.  The unpickler
\* runs the units in order.  PROTO and FRAME are optional; a frame is read
\* whole before its units are run, and the frame of a dump runs up to its STOP
\* opcode, so a framed stream without STOP raises UnpicklingError ("pickle data
\* was truncated").  Units that no dump holds:
\*   JUNK  a byte that is no opcode (b'\xff'): UnpicklingError;
\*   TEXT  the line b'garbage\n', read as the opcode GET with an argument that
\*         is no number: ValueError;
\*   MARK  the opcode MARK (b'('): harmless before the container, and
\*         UnpicklingError ("unexpected MARK") when STOP finds it on top.
\* A stream that ends where an opcode is expected raises EOFError ("Ran out of
\* input").  What follows the STOP opcode is not read.
PickleLoad(bytes) ==
    LET n == Len(bytes)
        Least(S) == CHOOSE k \in S : \A j \in S : k <= j
        p == IF n >= 1 /\ bytes[1].tag = "PROTO" THEN 2 ELSE 1
        framed == n >= p /\ bytes[p].tag = "FRAME"
        q == IF framed THEN p + 1 ELSE p
        ends == {k \in q..n : bytes[k].tag \in {"JUNK", "TEXT", "STOP"}}
        end == IF ends = {} THEN 0 ELSE Least(ends)
        nomark == {k \in q..n : bytes[k].tag # "MARK"}
        c == IF nomark = {} THEN n + 1 ELSE Least(nomark)
        nothing == Obj(FALSE, {}, <<>>, {}, 0)
    IN  IF framed /\ {k \in q..n : bytes[k].tag = "STOP"} = {}
        THEN [exc |-> "UnpicklingError", obj |-> nothing]
        ELSE IF end = 0 THEN [exc |-> "EOFError", obj |-> nothing]
        ELSE IF bytes[end].tag = "JUNK" THEN [exc |-> "UnpicklingError", obj |-> nothing]
        ELSE IF bytes[end].tag = "TEXT" THEN [exc |-> "ValueError", obj |-> nothing]
        ELSE IF /\ c < end
                /\ bytes[c].tag \in {"DICT", "LIST"}
                /\ \A k \in (c + 1)..(end - 1) : bytes[k].tag = "ITEM"
        THEN [exc |-> "none",
              obj |-> LoadItems(SubSeq(bytes, c + 1, end - 1),
                                Obj(bytes[c].tag = "DICT", {}, <<>>, {}, 0))]
        ELSE [exc |-> "UnpicklingError", obj |-> nothing]

NoFile == [exists |-> FALSE, bytes |-> <<>>]
FileOf(bytes) == [exists |-> TRUE, bytes |-> bytes]

-----------------------------------------------------------------------------
(* load_progress *)

\* The first exception the try block meets, "none" if it reaches the return.
LoadRaises(file) ==
    IF ~file.exists THEN "FileNotFoundError"
    ELSE LET got == PickleLoad(file.bytes)
         IN  IF got.exc # "none" THEN got.exc
             ELSE IF ~got.obj.isdict THEN "TypeError"
             ELSE IF "feedback_data" \notin got.obj.keys THEN "KeyError"
             ELSE IF "processed_ids" \notin got.obj.keys THEN "KeyError"
             ELSE "none"

\* `except:` with no exception class.
ExceptCatchesBug(exc) ==
    exc \in {"FileNotFoundError", "EOFError", "UnpicklingError", "TypeError", "KeyError"}
ExceptCatches(exc) == TRUE

\* What load_progress hands back: `raised` is the exception that leaves the
\* call ("none" when it returns), fd and ids the tuple returned.
load_progress(file) ==
    LET exc == LoadRaises(file)
    IN  IF exc = "none"
        THEN LET obj == PickleLoad(file.bytes).obj
             IN  [raised |-> "none", fd |-> obj.fd, ids |-> obj.ids]
        ELSE IF ExceptCatches(exc)
        THEN [raised |-> "none", fd |-> <<>>, ids |-> {}]
        ELSE [raised |-> exc, fd |-> <<>>, ids |-> {}]

-----------------------------------------------------------------------------
(* save_progress, step by step, and its callers in SpecStore *)

\* The arguments the callers of SpecStore pass to save_progress.
SaveArgs == {[fd |-> <<>>, ids |-> {"a1"}], [fd |-> <<"a2">>, ids |-> {"a1", "a2"}]}

NoCheckpoint == [has |-> FALSE, fd |-> <<>>, ids |-> {}]
Checkpoint(fd, ids) == [has |-> TRUE, fd |-> fd, ids |-> ids]

\* open(..., 'wb'): the file is created or truncated to zero bytes there.
OpenForWrite(file) == FileOf(<<>>)

\* save_progress(project_id, feedback_data, processed_ids) up to the open.
SaveOpen ==
    /\ st_pc = "idle"
    /\ st_clock < MaxSaves
    /\ \E p \in Projects, a \in SaveArgs :
        /\ st_proj' = p
        /\ st_buf' = PickleDump(CheckpointData(a.fd, a.ids, st_clock + 1))
        /\ files' = [files EXCEPT ![p] = OpenForWrite(files[p])]
        /\ st_new' = [st_new EXCEPT ![p] = Checkpoint(a.fd, a.ids)]
        /\ st_cut' = [st_cut EXCEPT ![p] = FALSE]
    /\ st_clock' = st_clock + 1
    /\ st_pc' = "saving"
    /\ UNCHANGED <<st_loaded, st_last>>

\* pickle.dump writes the next part of the stream.
SaveWrite ==
    /\ st_pc = "saving"
    /\ st_buf # <<>>
    /\ files' = [files EXCEPT ![st_proj] = FileOf(@.bytes \o <<Head(st_buf)>>)]
    /\ st_buf' = Tail(st_buf)
    /\ UNCHANGED <<st_pc, st_proj, st_clock, st_loaded, st_last, st_new, st_cut>>

\* The with block closes the file: the call returns.
SaveClose ==
    /\ st_pc = "saving"
    /\ st_buf = <<>>
    /\ st_pc' = "idle"
    /\ st_last' = [st_last EXCEPT ![st_proj] = st_new[st_proj]]
    /\ UNCHANGED <<files, st_proj, st_buf, st_clock, st_loaded, st_new, st_cut>>

\* The process is stopped inside save_progress: the file stays as written so far.
SaveInterrupt ==
    /\ st_pc = "saving"
    /\ st_pc' = "idle"
    /\ st_buf' = <<>>
    /\ st_cut' = [st_cut EXCEPT ![st_proj] = TRUE]
    /\ UNCHANGED <<files, st_proj, st_clock, st_loaded, st_last, st_new>>

NotLoaded == [proj |-> "", raised |-> "none", fd |-> <<>>, ids |-> {},
              cause |-> "", cut |-> FALSE]

\* load_progress(project_id), called between saves.
LoadCall ==
    /\ st_pc = "idle"
    /\ \E p \in Projects :
        LET r == load_progress(files[p])
        IN  st_loaded' = [proj |-> p, raised |-> r.raised, fd |-> r.fd, ids |-> r.ids,
                          cause |-> LoadRaises(files[p]), cut |-> st_cut[p]]
    /\ UNCHANGED <<files, st_pc, st_proj, st_buf, st_clock, st_last, st_new, st_cut>>

\* Files a run can find on disk: none, three that are no pickle, a pickle cut
\* short, a pickled list, a pickled dict lacking keys, a complete checkpoint.
FullBytes == PickleDump(CheckpointData(<<"a1">>, {"a1"}, 0))

InitialFiles ==
    { NoFile,
      FileOf(<<>>),
      FileOf(<<Mark("JUNK")>>),
      FileOf(<<Mark("TEXT")>>),
      FileOf(<<Mark("MARK")>>),
      FileOf(SubSeq(FullBytes, 1, 1)),
      FileOf(SubSeq(FullBytes, 1, 4)),
      FileOf(PickleDump(Obj(FALSE, {}, <<>>, {}, 0))),
      FileOf(PickleDump(Obj(TRUE, {"processed_ids", "timestamp"}, <<>>, {"a1"}, 0))),
      FileOf(PickleDump(Obj(TRUE, {"feedback_data"}, <<"a1">>, {}, 0))),
      FileOf(FullBytes) }

LastOf(file) ==
    IF LoadRaises(file) = "none"
    THEN Checkpoint(PickleLoad(file.bytes).obj.fd, PickleLoad(file.bytes).obj.ids)
    ELSE NoCheckpoint

STInit ==
    /\ files \in [Projects -> InitialFiles]
    /\ files["p2"] \in {NoFile, FileOf(FullBytes)}
    /\ st_pc = "idle"
    /\ st_proj = "p1"
    /\ st_buf = <<>>
    /\ st_clock = 0
    /\ st_loaded = NotLoaded
    /\ st_last = [p \in Projects |-> LastOf(files[p])]
    /\ st_new = [p \in Projects |-> NoCheckpoint]
    /\ st_cut = [p \in Projects |-> FALSE]

\* The parts at rest while another part is exercised.
MRIdle ==
    /\ max_retries = default_max_retries
    /\ retry_delay = default_retry_delay
    /\ mr_pc = "idle"
    /\ mr_attempt = 0
    /\ mr_log = <<>>
    /\ mr_resps = <<>>

STIdle ==
    /\ files = [p \in Projects |-> NoFile]
    /\ st_pc = "idle"
    /\ st_proj = "p1"
    /\ st_buf = <<>>
    /\ st_clock = 0
    /\ st_loaded = NotLoaded
    /\ st_last = [p \in Projects |-> NoCheckpoint]
    /\ st_new = [p \in Projects |-> NoCheckpoint]
    /\ st_cut = [p \in Projects |-> FALSE]

-----------------------------------------------------------------------------
(* Strings as the code handles them: lower(), `in`, tuple comparison *)

\* The characters that occur, in code point order.
Alphabet ==
    <<"/", "A", "B", "C", "D", "E", "F", "G", "H", "I", "J", "K", "L", "M",
      "N", "O", "P", "Q", "R", "S", "T", "U", "V", "W", "X", "Y", "Z",
      "a", "b", "c", "d", "e", "f", "g", "h", "i", "j", "k", "l", "m",
      "n", "o", "p", "q", "r", "s", "t", "u", "v", "w", "x", "y", "z">>

Code(c) == CHOOSE i \in 1..Len(Alphabet) : Alphabet[i] = c

\* str.lower()
LowerChar(c) == IF Code(c) \in 2..27 THEN Alphabet[Code(c) + 26] ELSE c
LowerStr(s) == [i \in 1..Len(s) |-> LowerChar(s[i])]

\* needle in hay
Contains(hay, needle) ==
    \E i \in 0..(Len(hay) - Len(needle)) : SubSeq(hay, i + 1, i + Len(needle)) = needle

\* a < b on strings
RECURSIVE StrLess(_, _)
StrLess(a, b) ==
    IF b = <<>> THEN FALSE
    ELSE IF a = <<>> THEN TRUE
    ELSE IF Head(a) = Head(b) THEN StrLess(Tail(a), Tail(b))
    ELSE Code(Head(a)) < Code(Head(b))

-----------------------------------------------------------------------------
(* The remote service: what the requests of a run return when they succeed *)

NoId == ""
ProjectId == "p1"

MkItem(id, type, name, parent, thumb) ==
    [id |-> id, type |-> type, name |-> name, parent_id |-> parent, thumb |-> thumb]

\*   R "Proj" -> [ A "Cut" -> [a1 "Bravo", a2 "Alpha", x1], B "Old" -> [ N "New" -> [a3] ] ]
\*   X "Loop" -> [ Y "Back" -> [ X ] ]: two folders that list each other, in no review link
Remote ==
    [i \in {"R", "A", "B", "N", "X", "Y", "a1", "a2", "a3", "x1"} |->
        CASE i = "R"  -> MkItem(i, "folder", <<"P", "r", "o", "j">>, NoId, FALSE)
          [] i = "A"  -> MkItem(i, "folder", <<"C", "u", "t">>, "R", FALSE)
          [] i = "B"  -> MkItem(i, "folder", <<"O", "l", "d">>, "R", FALSE)
          [] i = "N"  -> MkItem(i, "folder", <<"N", "e", "w">>, "B", FALSE)
          [] i = "X"  -> MkItem(i, "folder", <<"L", "o", "o", "p">>, "Y", FALSE)
          [] i = "Y"  -> MkItem(i, "folder", <<"B", "a", "c", "k">>, "X", FALSE)
          [] i = "a1" -> MkItem(i, "file", <<"B", "r", "a", "v", "o">>, "A", TRUE)
          [] i = "a2" -> MkItem(i, "video", <<"A", "l", "p", "h", "a">>, "A", FALSE)
          [] i = "a3" -> MkItem(i, "image", <<"C", "l", "i", "p">>, "N", FALSE)
          [] OTHER    -> MkItem(i, "comment", <<"N", "o", "t", "e">>, "A", FALSE)]

ItemIds == DOMAIN Remote
Folders == {i \in ItemIds : Remote[i].type = "folder"}

\* GET .../assets/<id>/children
Children ==
    [f \in Folders |->
        CASE f = "R" -> <<"A", "B">>
          [] f = "A" -> <<"a1", "a2", "x1">>
          [] f = "B" -> <<"N">>
          [] f = "N" -> <<"a3">>
          [] f = "X" -> <<"Y">>
          [] OTHER   -> <<"X">>]

\* GET .../projects/<id>/review_links and .../review_links/<id>/items: the
\* asset_id of each item, NoId for an item without one.
ReviewLinks == <<"L1", "L2">>
LinkItems ==
    [l \in {"L1", "L2"} |-> IF l = "L1" THEN <<"R", "a1">> ELSE <<"A", NoId, "B", "N">>]

\* GET .../assets/<id>/comments; iso: created_at parses with fromisoformat.
\* author: "dict" for an author object, "none" for "author": null.
MkComment(text, iso, author) == [text |-> text, iso |-> iso, author |-> author]
Comments ==
    [a \in ItemIds |->
        CASE a = "a1" -> <<MkComment("c1", TRUE, "dict"), MkComment("c2", FALSE, "dict"),
                           MkComment("c5", TRUE, "none"), MkComment("c6", TRUE, "dict")>>
          [] a = "a2" -> <<MkComment("c4", TRUE, "dict")>>
          [] OTHER    -> <<>>]

AssetTypes == {"file", "version_stack", "video", "image", "pdf", "audio", "review", "asset"}

PaletteSize == 8

-----------------------------------------------------------------------------
(* should_process_folder, process_folder *)

OldWord == <<"o", "l", "d">>

should_process_folder_bug(flag, folder_name) == TRUE
should_process_folder(flag, folder_name) ==
    ~(~flag /\ Contains(LowerStr(folder_name), OldWord))

Frame(id, name) ==
    [id |-> id, name |-> name, entered |-> FALSE, items |-> <<>>, idx |-> 1, assets |-> <<>>]

Top == stack[Len(stack)]
Rest == SubSeq(stack, 1, Len(stack) - 1)

\* A request may fail while the budget of faults lasts.
CanFail == nfail + ncrash < MaxFaults
Outcomes == IF CanFail THEN {TRUE, FALSE} ELSE {TRUE}
Failed(ok) == IF ok THEN 0 ELSE 1

Inc(f, k) == [f EXCEPT ![k] = @ + 1]

\* assets.extend(subfolder_assets)
ExtendBug(assets, more) == more \o assets
Extend(assets, more) == assets \o more

\* `return assets` of the innermost call: into the caller's list, or, for the
\* call made by get_all_assets, into all_assets.
WalkReturnsWith(result) ==
    IF Rest # <<>>
    THEN /\ stack' = [Rest EXCEPT ![Len(Rest)].assets = Extend(@, result)]
         /\ UNCHANGED <<all_assets, walks, it_idx, pc>>
    ELSE /\ stack' = <<>>
         /\ all_assets' = all_assets \o result
         /\ walks' = Append(walks, [root |-> Top.id, assets |-> result])
         /\ it_idx' = it_idx + 1
         /\ pc' = "items"

\* The innermost call of process_folder is so deep that the calls made inside
\* `items = self.get_folder_contents(folder_id)` for a request that gets an
\* answer exhaust the interpreter's call stack and raise RecursionError.  A
\* request that fails without an answer needs fewer nested calls and may
\* still be handled.
Overflows ==
    /\ ~Top.entered
    /\ should_process_folder(include_old_folders, Top.name)
    /\ Len(stack) >= MaxDepth

\* process_folder up to `items = self.get_folder_contents(folder_id)`.
WalkEnter ==
    /\ pc = "walk"
    /\ ~Top.entered
    /\ IF ~should_process_folder(include_old_folders, Top.name)
       THEN /\ WalkReturnsWith(<<>>)
            /\ UNCHANGED <<fetched, nfail, fetch_failed>>
       ELSE \E ok \in Outcomes :
            /\ Overflows => ~ok
            /\ fetched' = Inc(fetched, Top.id)
            /\ nfail' = nfail + Failed(ok)
            /\ fetch_failed' = IF ok THEN fetch_failed ELSE Inc(fetch_failed, Top.id)
            /\ stack' = [stack EXCEPT ![Len(stack)] =
                            [@ EXCEPT !.entered = TRUE,
                                      !.items = IF ok THEN Children[Top.id] ELSE <<>>]]
            /\ UNCHANGED <<all_assets, walks, it_idx, pc>>
    /\ UNCHANGED <<include_old_folders, run, ncrash, rl_links, rl_idx, rl_items,
                   feedback_data, processed_ids, to_process, organized, org_idx,
                   proc_idx, folder_feedback, err, commented, previewed, completed,
                   prev_completed, prev_end, link_failed, other_failed, looked, previews>>

\* One iteration of `for item in items`.
WalkItem ==
    /\ pc = "walk"
    /\ Top.entered
    /\ Top.idx <= Len(Top.items)
    /\ LET item == Remote[Top.items[Top.idx]]
           next == [Top EXCEPT !.idx = @ + 1]
       IN  stack' =
             IF item.type = "folder"
             THEN IF should_process_folder(include_old_folders, item.name)
                  THEN Rest \o <<next, Frame(item.id, item.name)>>
                  ELSE Rest \o <<next>>
             ELSE IF item.type \in AssetTypes
             THEN Rest \o <<[next EXCEPT !.assets = Append(@, item.id)]>>
             ELSE Rest \o <<next>>
    /\ UNCHANGED <<include_old_folders, pc, run, nfail, ncrash, rl_links, rl_idx,
                   rl_items, it_idx, all_assets, feedback_data, processed_ids,
                   to_process, organized, org_idx, proc_idx, folder_feedback, err>>
    /\ UNCHANGED hist_vars

\* The loop is over: `return assets`.
WalkReturn ==
    /\ pc = "walk"
    /\ Top.entered
    /\ Top.idx > Len(Top.items)
    /\ WalkReturnsWith(Top.assets)
    /\ UNCHANGED <<include_old_folders, run, nfail, ncrash, rl_links, rl_idx, rl_items,
                   feedback_data, processed_ids, to_process, organized, org_idx,
                   proc_idx, folder_feedback, err, fetched, commented, previewed,
                   completed, prev_completed, prev_end, fetch_failed, link_failed,
                   other_failed, looked, previews>>

\* RecursionError inside get_folder_contents of the innermost call, once its
\* request is made and, when that one fails, after the failure is handled.  It
\* is no RequestException, so get_folder_contents lets it pass, and no except
\* clause of process_folder or get_all_assets catches it: the walk ends with it.
WalkOverflow ==
    /\ pc = "walk"
    /\ Overflows
    /\ \E ok \in Outcomes :
        /\ fetched' = Inc(fetched, Top.id)
        /\ nfail' = nfail + Failed(ok)
        /\ fetch_failed' = IF ok THEN fetch_failed ELSE Inc(fetch_failed, Top.id)
    /\ stack' = <<>>
    /\ pc' = "error"
    /\ err' = "RecursionError"
    /\ UNCHANGED <<include_old_folders, run, ncrash, rl_links, rl_idx, rl_items,
                   it_idx, all_assets, feedback_data, processed_ids, to_process,
                   organized, org_idx, proc_idx, folder_feedback>>
    /\ UNCHANGED <<commented, previewed, walks, completed, prev_completed, prev_end,
                   link_failed, other_failed, looked, previews>>

-----------------------------------------------------------------------------
(* get_all_assets *)

\* review_links = self.get_review_links(project_id)
GetReviewLinks ==
    /\ pc = "start"
    /\ \E ok \in Outcomes :
        /\ rl_links' = IF ok THEN ReviewLinks ELSE <<>>
        /\ nfail' = nfail + Failed(ok)
        /\ other_failed' = (other_failed \/ ~ok)
    /\ rl_idx' = 1
    /\ pc' = "links"
    /\ UNCHANGED <<include_old_folders, run, ncrash, rl_items, it_idx, stack, all_assets,
                   feedback_data, processed_ids, to_process, organized, org_idx,
                   proc_idx, folder_feedback, err>>
    /\ UNCHANGED <<fetched, commented, previewed, walks, completed, prev_completed,
                   prev_end, fetch_failed, link_failed, looked, previews>>

\* except RequestException around one review link: the loop goes on with the
\* next of the n links.
AfterLinkFailureBug(idx, n) == n + 1
AfterLinkFailure(idx, n) == idx + 1

\* The next review link: the request for its items, skipped on a RequestException.
GetLinkItems ==
    /\ pc = "links"
    /\ rl_idx <= Len(rl_links)
    /\ \E ok \in Outcomes :
        /\ nfail' = nfail + Failed(ok)
        /\ IF ok
           THEN /\ rl_items' = LinkItems[rl_links[rl_idx]]
                /\ it_idx' = 1
                /\ pc' = "items"
                /\ UNCHANGED rl_idx
           ELSE /\ rl_idx' = AfterLinkFailure(rl_idx, Len(rl_links))
                /\ UNCHANGED <<rl_items, it_idx, pc>>
        /\ link_failed' = IF ok THEN link_failed ELSE link_failed \cup {rl_links[rl_idx]}
    /\ UNCHANGED <<include_old_folders, run, ncrash, rl_links, stack, all_assets,
                   feedback_data, processed_ids, to_process, organized, org_idx,
                   proc_idx, folder_feedback, err>>
    /\ UNCHANGED <<fetched, commented, previewed, walks, completed, prev_completed,
                   prev_end, fetch_failed, other_failed, looked, previews>>

\* One iteration of `for item in items` of a review link.
LinkItem ==
    /\ pc = "items"
    /\ it_idx <= Len(rl_items)
    /\ LET asset_id == rl_items[it_idx]
       IN  IF asset_id = NoId
           THEN /\ it_idx' = it_idx + 1
                /\ UNCHANGED <<nfail, stack, all_assets, pc, other_failed>>
           ELSE \E ok \in Outcomes :
                /\ nfail' = nfail + Failed(ok)
                /\ other_failed' = (other_failed \/ ~ok)
                /\ IF ~ok
                   THEN /\ it_idx' = it_idx + 1
                        /\ UNCHANGED <<stack, all_assets, pc>>
                   ELSE IF Remote[asset_id].type = "folder"
                   THEN /\ stack' = <<Frame(asset_id, Remote[asset_id].name)>>
                        /\ pc' = "walk"
                        /\ UNCHANGED <<it_idx, all_assets>>
                   ELSE /\ all_assets' = Append(all_assets, asset_id)
                        /\ it_idx' = it_idx + 1
                        /\ UNCHANGED <<stack, pc>>
    /\ UNCHANGED <<include_old_folders, run, ncrash, rl_links, rl_idx, rl_items,
                   feedback_data, processed_ids, to_process, organized, org_idx,
                   proc_idx, folder_feedback, err>>
    /\ UNCHANGED <<fetched, commented, previewed, walks, completed, prev_completed,
                   prev_end, fetch_failed, link_failed, looked, previews>>

LinkItemsDone ==
    /\ pc = "items"
    /\ it_idx > Len(rl_items)
    /\ rl_idx' = rl_idx + 1
    /\ pc' = "links"
    /\ UNCHANGED <<include_old_folders, run, nfail, ncrash, rl_links, rl_items, it_idx,
                   stack, all_assets, feedback_data, processed_ids, to_process,
                   organized, org_idx, proc_idx, folder_feedback, err>>
    /\ UNCHANGED hist_vars

-----------------------------------------------------------------------------
(* get_folder_path, organize_assets_by_folder *)

RootPath == <<"/">>

\* get_folder_path(item, folders) where the get_item_details request for
\* `failing` (if it is made) fails and yields None.
RECURSIVE get_folder_path(_, _, _)
get_folder_path(item, folders, failing) ==
    LET parent_id == item.parent_id
    IN  IF parent_id = NoId THEN RootPath
        ELSE IF parent_id \in folders \/ parent_id = failing THEN RootPath
        ELSE LET parent == Remote[parent_id]
             IN  IF parent.type = "folder"
                 THEN get_folder_path(parent, folders \cup {parent_id}, failing)
                          \o <<"/">> \o parent.name
                 ELSE RootPath

\* The items whose details get_folder_path(item, {}) asks for when no request fails.
RECURSIVE Lookups(_, _)
Lookups(item, seen) ==
    IF item.parent_id = NoId \/ item.parent_id \in seen THEN {}
    ELSE {item.parent_id} \cup
         (IF Remote[item.parent_id].type = "folder"
          THEN Lookups(Remote[item.parent_id], seen \cup {item.parent_id})
          ELSE {})

\* The items whose details get_folder_path(item, {}) asks for when the request
\* for `failing` fails: the chain of parents up to the failing one.
RECURSIVE Asked(_, _, _)
Asked(item, seen, failing) ==
    IF item.parent_id = NoId \/ item.parent_id \in seen THEN {}
    ELSE {item.parent_id} \cup
         (IF item.parent_id # failing /\ Remote[item.parent_id].type = "folder"
          THEN Asked(Remote[item.parent_id], seen \cup {item.parent_id}, failing)
          ELSE {})

\* The sort key (x['folder_path'], x['asset'].get('name', '')), compared as tuples.
KeyLessBug(x, y) == StrLess(x.folder_path, y.folder_path)
KeyLess(x, y) ==
    \/ StrLess(x.folder_path, y.folder_path)
    \/ x.folder_path = y.folder_path /\ StrLess(Remote[x.asset].name, Remote[y.asset].name)

\* list.sort: stable, ascending by key.
RECURSIVE InsertSorted(_, _)
InsertSorted(sorted, x) ==
    IF sorted = <<>> THEN <<x>>
    ELSE IF KeyLess(x, Head(sorted)) THEN <<x>> \o sorted
    ELSE <<Head(sorted)>> \o InsertSorted(Tail(sorted), x)

RECURSIVE SortOrganized(_)
SortOrganized(xs) ==
    IF xs = <<>> THEN <<>>
    ELSE InsertSorted(SortOrganized(SubSeq(xs, 1, Len(xs) - 1)), xs[Len(xs)])

\* One iteration of the first pass of organize_assets_by_folder.
OrganizeAsset ==
    /\ pc = "organize"
    /\ org_idx <= Len(to_process)
    /\ LET a == to_process[org_idx]
       IN  \E failing \in {NoId} \cup (IF CanFail THEN Lookups(Remote[a], {}) ELSE {}) :
            /\ organized' = Append(organized,
                    [asset |-> a, folder_path |-> get_folder_path(Remote[a], {}, failing)])
            /\ nfail' = nfail + (IF failing = NoId THEN 0 ELSE 1)
            /\ looked' = [i \in ItemIds |->
                            looked[i] + (IF i \in Asked(Remote[a], {}, failing) THEN 1 ELSE 0)]
    /\ org_idx' = org_idx + 1
    /\ UNCHANGED <<include_old_folders, pc, run, ncrash, rl_links, rl_idx, rl_items,
                   it_idx, stack, all_assets, feedback_data, processed_ids, to_process,
                   proc_idx, folder_feedback, err>>
    /\ UNCHANGED <<fetched, commented, previewed, walks, completed, prev_completed,
                   prev_end, fetch_failed, link_failed, other_failed, previews>>

\* The sort and the return of organize_assets_by_folder; generate_report
\* starts its loop with an empty folder_feedback.
OrganizeSort ==
    /\ pc = "organize"
    /\ org_idx > Len(to_process)
    /\ organized' = SortOrganized(organized)
    /\ proc_idx' = 1
    /\ folder_feedback' = <<>>
    /\ pc' = "process"
    /\ UNCHANGED <<include_old_folders, run, nfail, ncrash, rl_links, rl_idx, rl_items,
                   it_idx, stack, all_assets, feedback_data, processed_ids, to_process,
                   org_idx, err>>
    /\ UNCHANGED hist_vars

-----------------------------------------------------------------------------
(* generate_report *)

\* assets_to_process = [a for a in assets if a['id'] not in processed_ids]
AssetsToProcessBug(assets, ids) == assets
RECURSIVE AssetsToProcess(_, _)
AssetsToProcess(assets, ids) ==
    IF assets = <<>> THEN <<>>
    ELSE (IF Head(assets) \notin ids THEN <<Head(assets)>> ELSE <<>>)
            \o AssetsToProcess(Tail(assets), ids)

\* get_all_assets has returned: load_progress and the filter.
LoadAndFilter ==
    /\ pc = "links"
    /\ rl_idx > Len(rl_links)
    /\ LET r == load_progress(files[ProjectId])
       IN  IF r.raised # "none"
           THEN /\ pc' = "error"
                /\ err' = r.raised
                /\ UNCHANGED <<feedback_data, processed_ids, to_process, organized, org_idx>>
           ELSE /\ feedback_data' = r.fd
                /\ processed_ids' = r.ids
                /\ to_process' = AssetsToProcess(all_assets, r.ids)
                /\ organized' = <<>>
                /\ org_idx' = 1
                /\ pc' = "organize"
                /\ UNCHANGED err
    /\ UNCHANGED <<include_old_folders, run, nfail, ncrash, rl_links, rl_idx, rl_items,
                   it_idx, stack, all_assets, proc_idx, folder_feedback>>
    /\ UNCHANGED hist_vars

\* The body of the inner try raises: None.get in process_comment_author, or
\* datetime.fromisoformat on a created_at that is no ISO timestamp.
CommentRaises(comment) == comment.author = "none" \/ ~comment.iso

\* The inner loop over the comments: a comment whose processing raises is
\* skipped by `except Exception: continue`.
RECURSIVE ProcessCommentsBug(_, _)
ProcessCommentsBug(comments, idx) ==
    IF idx > Len(comments) \/ CommentRaises(comments[idx]) THEN <<>>
    ELSE <<[text |-> comments[idx].text, color |-> (idx - 1) % PaletteSize]>>
            \o ProcessCommentsBug(comments, idx + 1)

RECURSIVE ProcessComments(_, _)
ProcessComments(comments, idx) ==
    IF idx > Len(comments) THEN <<>>
    ELSE (IF ~CommentRaises(comments[idx])
          THEN <<[text |-> comments[idx].text, color |-> (idx - 1) % PaletteSize]>>
          ELSE <<>>)
            \o ProcessComments(comments, idx + 1)

Entry(a, thumbnail, comments) ==
    [asset_id |-> a, asset_name |-> Remote[a].name, asset_type |-> Remote[a].type,
     thumbnail_url |-> thumbnail, comments |-> comments]

\* folder_feedback is a list of [path, entries] in order of first insertion.
HasPath(ff, path) == \E i \in 1..Len(ff) : ff[i].path = path
WithPath(ff, path) ==
    IF HasPath(ff, path) THEN ff ELSE Append(ff, [path |-> path, entries |-> <<>>])
AddEntry(ff, path, e) ==
    [i \in 1..Len(ff) |->
        IF ff[i].path = path THEN [ff[i] EXCEPT !.entries = Append(@, e)] ELSE ff[i]]

\* What the preview request of get_asset_preview can meet.
PreviewOutcomes == {"ok", "http404", "http500", "conn"}

\* `except Exception as e`: a RequestException always has the attribute
\* `response`, which is None when no response was received, so the test
\* e.response.status_code raises AttributeError inside the handler.
HandlerRaises(r) == ~IsHTTPError(r)

\* st.write unless the status is 404.
HandlerReportsBug(r) == TRUE
HandlerReports(r) == ~(IsHTTPError(r) /\ StatusCode(r) = 404)

NoUrl == <<>>
PreviewResult(raised, url, reported) == [raised |-> raised, url |-> url, reported |-> reported]

\* get_asset_preview(asset['id'], asset) when the preview request, if one is
\* made, meets r: the thumbnail field of the details, or the url of the
\* preview, or None.
get_asset_preview(a, r) ==
    IF Remote[a].thumb THEN PreviewResult(FALSE, <<"field", a>>, FALSE)
    ELSE IF r = "ok" THEN PreviewResult(FALSE, <<"preview", a>>, FALSE)
    ELSE IF HandlerRaises(r) THEN PreviewResult(TRUE, NoUrl, FALSE)
    ELSE PreviewResult(FALSE, NoUrl, HandlerReports(r))

\* One iteration of `for organized_asset in organized_assets`.
ProcessAsset ==
    /\ pc = "process"
    /\ proc_idx <= Len(organized)
    /\ LET a    == organized[proc_idx].asset
           path == organized[proc_idx].folder_path
           ff1  == WithPath(folder_feedback, path)
       IN  \E okc \in Outcomes, r \in PreviewOutcomes :
            LET comments == IF okc THEN Comments[a] ELSE <<>>
                done     == ProcessComments(comments, 1)
                asks     == done # <<>> /\ ~Remote[a].thumb
                preview  == get_asset_preview(a, r)
            IN  /\ r = "ok" \/ (asks /\ nfail + ncrash + Failed(okc) < MaxFaults)
                /\ nfail' = nfail + Failed(okc) + (IF r = "ok" THEN 0 ELSE 1)
                /\ commented' = Inc(commented, a)
                /\ IF done # <<>>
                   THEN /\ previewed' = Inc(previewed, a)
                        /\ previews' = IF asks
                                       THEN previews \cup {[asset |-> a, outcome |-> r,
                                                            did |-> preview]}
                                       ELSE previews
                        /\ folder_feedback' =
                             IF preview.raised THEN ff1
                             ELSE AddEntry(ff1, path, Entry(a, preview.url, done))
                   ELSE /\ folder_feedback' = ff1
                        /\ UNCHANGED <<previewed, previews>>
            /\ completed' = completed \cup {a}
    /\ proc_idx' = proc_idx + 1
    /\ UNCHANGED <<include_old_folders, pc, run, ncrash, rl_links, rl_idx, rl_items,
                   it_idx, stack, all_assets, feedback_data, processed_ids, to_process,
                   organized, org_idx, err, fetched, walks, prev_completed, prev_end,
                   fetch_failed, link_failed, other_failed, looked>>

\* The attributes of the class FrameIOFeedbackExporter (the defs of lines 12-395).
Methods ==
    {"get_comment_color", "make_request", "should_process_folder", "process_folder",
     "save_progress", "load_progress", "get_teams", "get_team_projects",
     "get_review_links", "get_item_details", "get_folder_path", "get_folder_contents",
     "get_asset_preview", "process_comment_annotations", "get_asset_comments",
     "organize_assets_by_folder", "get_all_assets", "process_comment_author",
     "generate_report"}

\* return self.render_html_report(folder_feedback)
Render ==
    /\ pc = "process"
    /\ proc_idx > Len(organized)
    /\ IF "render_html_report" \in Methods
       THEN pc' = "done" /\ UNCHANGED err
       ELSE pc' = "error" /\ err' = "AttributeError"
    /\ UNCHANGED <<include_old_folders, run, nfail, ncrash, rl_links, rl_idx, rl_items,
                   it_idx, stack, all_assets, feedback_data, processed_ids, to_process,
                   organized, org_idx, proc_idx, folder_feedback>>
    /\ UNCHANGED hist_vars

ZeroCounts == [i \in ItemIds |-> 0]

\* A new call of generate_report in a new process: nothing but the files on
\* disk carries over.
StartsAgain(how) ==
    /\ run < MaxRuns
    /\ run' = run + 1
    /\ pc' = "start"
    /\ rl_links' = <<>>
    /\ rl_idx' = 1
    /\ rl_items' = <<>>
    /\ it_idx' = 1
    /\ stack' = <<>>
    /\ all_assets' = <<>>
    /\ feedback_data' = <<>>
    /\ processed_ids' = {}
    /\ to_process' = <<>>
    /\ organized' = <<>>
    /\ org_idx' = 1
    /\ proc_idx' = 1
    /\ folder_feedback' = <<>>
    /\ err' = ""
    /\ fetched' = ZeroCounts
    /\ commented' = ZeroCounts
    /\ previewed' = ZeroCounts
    /\ walks' = <<>>
    /\ completed' = {}
    /\ prev_completed' = prev_completed \cup completed
    /\ prev_end' = how
    /\ fetch_failed' = ZeroCounts
    /\ link_failed' = {}
    /\ other_failed' = FALSE
    /\ looked' = ZeroCounts
    /\ previews' = {}
    \* main() reads the checkbox and builds a new exporter on every run
    /\ include_old_folders' \in BOOLEAN
    /\ UNCHANGED nfail

\* The run is stopped from outside between two assets of the feedback loop,
\* and the user starts it again.
Crash ==
    /\ pc = "process"
    /\ CanFail
    /\ ncrash' = ncrash + 1
    /\ StartsAgain("crash")

\* The run has ended; the user generates the report of the project again.
Rerun ==
    /\ pc \in {"done", "error"}
    /\ UNCHANGED ncrash
    /\ StartsAgain("end")

\* Checkpoint files a run can find for its project.
HarvestFiles ==
    { NoFile,
      FileOf(<<Mark("JUNK")>>),
      FileOf(FullBytes),
      FileOf(PickleDump(CheckpointData(<<>>, {"a1", "a3"}, 0))) }

GRInit ==
    /\ include_old_folders \in BOOLEAN
    /\ pc = "start"
    /\ run = 1
    /\ nfail = 0
    /\ ncrash = 0
    /\ rl_links = <<>>
    /\ rl_idx = 1
    /\ rl_items = <<>>
    /\ it_idx = 1
    /\ stack = <<>>
    /\ all_assets = <<>>
    /\ feedback_data = <<>>
    /\ processed_ids = {}
    /\ to_process = <<>>
    /\ organized = <<>>
    /\ org_idx = 1
    /\ proc_idx = 1
    /\ folder_feedback = <<>>
    /\ err = ""
    /\ fetched = ZeroCounts
    /\ commented = ZeroCounts
    /\ previewed = ZeroCounts
    /\ walks = <<>>
    /\ completed = {}
    /\ prev_completed = {}
    /\ prev_end = ""
    /\ fetch_failed = ZeroCounts
    /\ link_failed = {}
    /\ other_failed = FALSE
    /\ looked = ZeroCounts
    /\ previews = {}

GRIdle == GRInit /\ include_old_folders = FALSE

\* process_folder called on one folder of the remote service.
WalkInit ==
    /\ include_old_folders \in BOOLEAN
    /\ \E root \in {"R", "A", "B", "X"} :
        /\ rl_items = <<root>>
        /\ stack = <<Frame(root, Remote[root].name)>>
    /\ pc = "walk"
    /\ run = 1
    /\ nfail = 0
    /\ ncrash = 0
    /\ rl_links = <<"L1">>
    /\ rl_idx = 1
    /\ it_idx = 1
    /\ all_assets = <<>>
    /\ feedback_data = <<>>
    /\ processed_ids = {}
    /\ to_process = <<>>
    /\ organized = <<>>
    /\ org_idx = 1
    /\ proc_idx = 1
    /\ folder_feedback = <<>>
    /\ err = ""
    /\ fetched = ZeroCounts
    /\ commented = ZeroCounts
    /\ previewed = ZeroCounts
    /\ walks = <<>>
    /\ completed = {}
    /\ prev_completed = {}
    /\ prev_end = ""
    /\ fetch_failed = ZeroCounts
    /\ link_failed = {}
    /\ other_failed = FALSE
    /\ looked = ZeroCounts
    /\ previews = {}

STInitHarvest ==
    /\ files \in [Projects -> HarvestFiles]
    /\ files["p2"] = NoFile
    /\ st_pc = "idle"
    /\ st_proj = "p1"
    /\ st_buf = <<>>
    /\ st_clock = 0
    /\ st_loaded = NotLoaded
    /\ st_last = [p \in Projects |-> LastOf(files[p])]
    /\ st_new = [p \in Projects |-> NoCheckpoint]
    /\ st_cut = [p \in Projects |-> FALSE]

-----------------------------------------------------------------------------
(* get_folder_contents, request by request *)

\* The four candidate URLs of lines 176-181, in list order.
Endpoints == <<"assets/items", "assets/children", "folders/items", "folders/children">>

\* `except requests.exceptions.RequestException`: HTTPError, ConnectionError
\* and Timeout are all RequestExceptions.
FCCatchesBug(r) == IsHTTPError(r)
FCCatches(r) == IsHTTPError(r) \/ r = "conn"

ResetRequest ==
    /\ mr_pc' = "idle"
    /\ mr_attempt' = 0
    /\ mr_log' = <<>>
    /\ mr_resps' = <<>>
    /\ UNCHANGED <<max_retries, retry_delay>>

\* The loop takes the next endpoint and calls self.make_request(endpoint).
FCTry ==
    /\ fc_pc = "try"
    /\ fc_idx <= Len(Endpoints)
    /\ MRCall
    /\ fc_log' = Append(fc_log, Endpoints[fc_idx])
    /\ UNCHANGED <<fc_pc, fc_folder, fc_idx, fc_result, fc_from, fc_errors, fc_attempts>>

\* `return items` inside the loop ends the call at this endpoint.
AfterAnswerBug(idx) ==
    [pc |-> IF idx < Len(Endpoints) THEN "try" ELSE "returned", idx |-> idx + 1]
AfterAnswer(idx) == [pc |-> "returned", idx |-> idx]

\* make_request returned: `return items`.
FCReturn ==
    /\ fc_pc = "try"
    /\ mr_pc = "returned"
    /\ fc_result' = Children[fc_folder]
    /\ fc_from' = fc_idx
    /\ fc_pc' = AfterAnswer(fc_idx).pc
    /\ fc_idx' = AfterAnswer(fc_idx).idx
    /\ fc_attempts' = fc_attempts + Len(mr_resps)
    /\ ResetRequest
    /\ UNCHANGED <<fc_folder, fc_log, fc_errors>>

\* make_request raised: `continue` when the except clause catches it, and
\* after the last endpoint the st.error of line 191 and `return []`.
FCExcept ==
    /\ fc_pc = "try"
    /\ mr_pc = "raised"
    /\ IF ~FCCatches(mr_resps[Len(mr_resps)])
       THEN /\ fc_pc' = "raised"
            /\ UNCHANGED <<fc_idx, fc_result, fc_errors>>
       ELSE IF fc_idx < Len(Endpoints)
       THEN /\ fc_idx' = fc_idx + 1
            /\ UNCHANGED <<fc_pc, fc_result, fc_errors>>
       ELSE /\ fc_idx' = fc_idx + 1
            /\ fc_errors' = fc_errors + 1
            /\ fc_result' = <<>>
            /\ fc_pc' = "returned"
    /\ fc_attempts' = fc_attempts + Len(mr_resps)
    /\ ResetRequest
    /\ UNCHANGED <<fc_folder, fc_log, fc_from>>

\* The constructor's retry settings are positive; the call is about a folder.
FCInit ==
    /\ max_retries \in 1..MaxRetriesBound
    /\ retry_delay \in {1, default_retry_delay}
    /\ mr_pc = "idle"
    /\ mr_attempt = 0
    /\ mr_log = <<>>
    /\ mr_resps = <<>>
    /\ fc_folder \in {"R", "A"}
    /\ fc_pc = "try"
    /\ fc_idx = 1
    /\ fc_log = <<>>
    /\ fc_result = <<>>
    /\ fc_from = 0
    /\ fc_errors = 0
    /\ fc_attempts = 0

FCIdle ==
    /\ fc_pc = "idle"
    /\ fc_folder = NoId
    /\ fc_idx = 1
    /\ fc_log = <<>>
    /\ fc_result = <<>>
    /\ fc_from = 0
    /\ fc_errors = 0
    /\ fc_attempts = 0

-----------------------------------------------------------------------------
(* process_comment_author *)

\* A dict value: a missing key, None, or a string ("" is the empty string).
Missing == "<missing>"
None == "<None>"
UnknownUser == "Unknown User"

\* dict.get(key) and dict.get(key, default)
Get(d, key) == IF d[key] = Missing THEN None ELSE d[key]
GetDefault(d, key, default) == IF d[key] = Missing THEN default ELSE d[key]

\* Truth value of a string or None; `a or b`.
Truthy(v) == v # None /\ v # ""
Or(a, b) == IF Truthy(a) THEN a ELSE b

\* The 'author' object of a comment: its four name fields and its
\* 'anonymous_user' sub-object (exists = FALSE: the key is missing).
NameFields == [name : {Missing, "", "n"},
               display_name : {Missing, "d"},
               full_name : {Missing, "f"},
               email : {Missing, None, "", "e"}]
NoFields == [name |-> Missing, display_name |-> Missing, full_name |-> Missing,
             email |-> Missing]
SubObject(exists, fields) == [exists |-> exists, fields |-> fields]
AnonymousUsers ==
    { SubObject(FALSE, NoFields),
      SubObject(TRUE, [NoFields EXCEPT !.email = "a@b.com"]),
      SubObject(TRUE, [NoFields EXCEPT !.name = "anon"]) }
Author(fields, anon) == [fields |-> fields, anonymous_user |-> anon]
NoAuthor == Author(NoFields, SubObject(FALSE, NoFields))

\* A comment: 'author' is missing, None or an object.
MkAuthored(kind, author) == [kind |-> kind, author |-> author]
AuthoredComments ==
    {MkAuthored("missing", NoAuthor), MkAuthored("none", NoAuthor)}
        \cup {MkAuthored("dict", Author(f, u)) : f \in NameFields, u \in AnonymousUsers}

\* name = author.get('name') or author.get('display_name')
\*          or author.get('full_name') or author.get('email', 'Unknown User')
process_comment_author(comment) ==
    LET author == comment.author.fields
    IN  Or(Get(author, "name"),
           Or(Get(author, "display_name"),
              Or(Get(author, "full_name"),
                 GetDefault(author, "email", UnknownUser))))

\* The call: comment.get('author', {}) is None for "author": null, and
\* None.get raises AttributeError.
AuthorCall ==
    /\ au_pc = "called"
    /\ IF au_comment.kind = "none"
       THEN /\ au_pc' = "raised"
            /\ UNCHANGED au_result
       ELSE /\ au_result' = process_comment_author(au_comment)
            /\ au_pc' = "returned"
    /\ UNCHANGED au_comment

AUInit ==
    /\ au_pc = "called"
    /\ au_comment \in AuthoredComments
    /\ au_result = None

AUIdle ==
    /\ au_pc = "idle"
    /\ au_comment = MkAuthored("missing", NoAuthor)
    /\ au_result = None

-----------------------------------------------------------------------------
(* process_comment_annotations, generate_svg_overlay, scale_point *)

image_width == 200
image_height == 112

\* A coordinate key that the annotation does not have.
NoNum == -1

AnnotationTypes == {"rectangle", "circle", "arrow", "line", "freehand"}

\* The annotations a comment can carry: at most two, of a supported or an
\* unsupported type.
Annotations ==
    [type : {"rectangle", "arrow", "note"}, x : {0, 50}, y : {25},
     width : {20, NoNum}, height : {10}]
AnnotationLists ==
    {<<>>} \cup {<<a>> : a \in Annotations} \cup {<<a, b>> : a, b \in Annotations}

\* annotation.get(key, 0)
GetNum(v) == IF v = NoNum THEN 0 ELSE v

\* None: process_comment_annotations never returns an empty list, so the
\* empty sequence stands for None.
NoAnnotations == <<>>

\* The loop of process_comment_annotations: one dict per annotation of a
\* supported type, with the coordinates as they came.
RECURSIVE AnnotationData(_, _)
AnnotationData(annotations, color) ==
    IF annotations = <<>> THEN <<>>
    ELSE (IF Head(annotations).type \in AnnotationTypes
          THEN <<[type |-> Head(annotations).type, color |-> color,
                  x |-> GetNum(Head(annotations).x), y |-> GetNum(Head(annotations).y),
                  width |-> GetNum(Head(annotations).width),
                  height |-> GetNum(Head(annotations).height)]>>
          ELSE <<>>)
            \o AnnotationData(Tail(annotations), color)

process_comment_annotations(annotations, color) ==
    IF annotations = <<>> THEN NoAnnotations ELSE AnnotationData(annotations, color)

\* (point * 100.0) / dimension, as the fraction num / den.
scale_point(point, dimension) == [num |-> point * 100, den |-> dimension]

\* generate_svg_overlay: "" for no annotations; otherwise the function ends
\* after its st.write (the def of scale_point at column 0 closes its body) and
\* returns None.
generate_svg_overlay(annotations) == IF annotations = <<>> THEN "" ELSE None

\* annotations = self.process_comment_annotations(comment, comment_color)
AnnotateCall ==
    /\ an_pc = "called"
    /\ an_data' = process_comment_annotations(an_input, 0)
    /\ an_pc' = "processed"
    /\ UNCHANGED <<an_input, an_svg>>

\* The overlay of the comment's annotations for the report.
OverlayCall ==
    /\ an_pc = "processed"
    /\ an_svg' = generate_svg_overlay(an_data)
    /\ an_pc' = "overlaid"
    /\ UNCHANGED <<an_input, an_data>>

ANInit ==
    /\ an_pc = "called"
    /\ an_input \in AnnotationLists
    /\ an_data = NoAnnotations
    /\ an_svg = None

ANIdle ==
    /\ an_pc = "idle"
    /\ an_input = <<>>
    /\ an_data = NoAnnotations
    /\ an_svg = None

-----------------------------------------------------------------------------
(* get_folder_path, call by call *)

\* The interpreter's recursion limit, counted in calls of get_folder_path.
\* Any value above the number of items gives the same behaviours.
DepthLimit == Cardinality(ItemIds) + 1

\* The argument of the innermost call.
Innermost == Remote[gp_chain[Len(gp_chain)]]

\* `parent_id not in folders` is false.
KnownBug(parent_id, folders) == FALSE
Known(parent_id, folders) == parent_id \in folders

\* get_item_details(parent_id) answers with the item (otherwise it raises or
\* yields None).
Answers(parent_id) == parent_id # gp_fail

\* The innermost call fetches its parent, stores it, finds a folder and calls
\* itself with the parent.
GPDescend ==
    /\ gp_pc = "call"
    /\ Innermost.parent_id # NoId
    /\ ~Known(Innermost.parent_id, gp_folders)
    /\ Answers(Innermost.parent_id)
    /\ Remote[Innermost.parent_id].type = "folder"
    /\ Len(gp_chain) < DepthLimit
    /\ gp_folders' = gp_folders \cup {Innermost.parent_id}
    /\ gp_chain' = Append(gp_chain, Innermost.parent_id)
    /\ UNCHANGED <<gp_pc, gp_fail, gp_why, gp_path>>

\* Why the innermost call returns "/" without calling itself.
BaseReason ==
    CASE Innermost.parent_id = NoId -> "root"
      [] Innermost.parent_id # NoId /\ Known(Innermost.parent_id, gp_folders) -> "known"
      [] OTHER -> IF ~Answers(Innermost.parent_id) THEN "failed"
                  ELSE IF Remote[Innermost.parent_id].type # "folder" THEN "notfolder"
                  ELSE "overflow"

\* The innermost call returns "/": no parent, a parent already in folders, a
\* failed request, a parent that is not a folder (it is stored all the same),
\* or an exception of the nested call caught by `except Exception`.
GPBase ==
    /\ gp_pc = "call"
    /\ BaseReason = "overflow" => Len(gp_chain) >= DepthLimit
    /\ gp_why' = BaseReason
    /\ gp_folders' = IF BaseReason = "notfolder"
                     THEN gp_folders \cup {Innermost.parent_id}
                     ELSE gp_folders
    /\ gp_path' = RootPath
    /\ gp_pc' = "unwind"
    /\ UNCHANGED <<gp_chain, gp_fail>>

\* A call returns to its caller, which returns f"{parent_path}/{name}"; the
\* outermost call returns to the caller of get_folder_path.
GPUnwind ==
    /\ gp_pc = "unwind"
    /\ IF Len(gp_chain) = 1
       THEN /\ gp_pc' = "returned"
            /\ UNCHANGED <<gp_chain, gp_path>>
       ELSE /\ gp_path' = gp_path \o <<"/">> \o Innermost.name
            /\ gp_chain' = SubSeq(gp_chain, 1, Len(gp_chain) - 1)
            /\ UNCHANGED gp_pc
    /\ UNCHANGED <<gp_folders, gp_fail, gp_why>>

\* get_folder_path(asset) with folders=None, for any item, with at most one
\* item whose details cannot be fetched.
GPInit ==
    /\ gp_pc = "call"
    /\ \E i \in ItemIds : gp_chain = <<i>>
    /\ gp_folders = {}
    /\ gp_fail \in {NoId} \cup Folders
    /\ gp_why = ""
    /\ gp_path = <<>>

GPIdle ==
    /\ gp_pc = "idle"
    /\ gp_chain = <<>>
    /\ gp_folders = {}
    /\ gp_fail = NoId
    /\ gp_why = ""
    /\ gp_path = <<>>

-----------------------------------------------------------------------------
(* Specifications *)

InitRequest == MRInit /\ STIdle /\ GRIdle /\ FCIdle /\ AUIdle /\ ANIdle /\ GPIdle

NextRequest ==
    \/ MRCall /\ UNCHANGED <<st_vars, gr_vars, hist_vars, fc_vars, au_vars, an_vars, gp_vars>>
    \/ MRCallEmpty /\ UNCHANGED <<st_vars, gr_vars, hist_vars, fc_vars, au_vars, an_vars, gp_vars>>
    \/ MRAttempt /\ UNCHANGED <<st_vars, gr_vars, hist_vars, fc_vars, au_vars, an_vars, gp_vars>>

SpecRequest == InitRequest /\ [][NextRequest]_vars

InitStore == STInit /\ MRIdle /\ GRIdle /\ FCIdle /\ AUIdle /\ ANIdle /\ GPIdle

NextStore ==
    \/ SaveOpen /\ UNCHANGED <<mr_vars, gr_vars, hist_vars, fc_vars, au_vars, an_vars, gp_vars>>
    \/ SaveWrite /\ UNCHANGED <<mr_vars, gr_vars, hist_vars, fc_vars, au_vars, an_vars, gp_vars>>
    \/ SaveClose /\ UNCHANGED <<mr_vars, gr_vars, hist_vars, fc_vars, au_vars, an_vars, gp_vars>>
    \/ SaveInterrupt /\ UNCHANGED <<mr_vars, gr_vars, hist_vars, fc_vars, au_vars, an_vars, gp_vars>>
    \/ LoadCall /\ UNCHANGED <<mr_vars, gr_vars, hist_vars, fc_vars, au_vars, an_vars, gp_vars>>

SpecStore == InitStore /\ [][NextStore]_vars

InitContents == FCInit /\ STIdle /\ GRIdle /\ AUIdle /\ ANIdle /\ GPIdle

NextContents ==
    \/ FCTry /\ UNCHANGED <<st_vars, gr_vars, hist_vars, au_vars, an_vars, gp_vars>>
    \/ MRAttempt /\ UNCHANGED <<st_vars, gr_vars, hist_vars, fc_vars, au_vars, an_vars, gp_vars>>
    \/ FCReturn /\ UNCHANGED <<st_vars, gr_vars, hist_vars, au_vars, an_vars, gp_vars>>
    \/ FCExcept /\ UNCHANGED <<st_vars, gr_vars, hist_vars, au_vars, an_vars, gp_vars>>

SpecContents == InitContents /\ [][NextContents]_vars

InitAuthor == AUInit /\ STIdle /\ MRIdle /\ GRIdle /\ FCIdle /\ ANIdle /\ GPIdle

NextAuthor == AuthorCall /\ UNCHANGED <<mr_vars, st_vars, gr_vars, hist_vars, fc_vars, an_vars, gp_vars>>

SpecAuthor == InitAuthor /\ [][NextAuthor]_vars

InitWalk == WalkInit /\ STIdle /\ MRIdle /\ FCIdle /\ AUIdle /\ ANIdle /\ GPIdle

NextWalk ==
    \/ WalkEnter /\ UNCHANGED <<mr_vars, st_vars, fc_vars, au_vars, an_vars, gp_vars>>
    \/ WalkItem /\ UNCHANGED <<mr_vars, st_vars, fc_vars, au_vars, an_vars, gp_vars>>
    \/ WalkReturn /\ UNCHANGED <<mr_vars, st_vars, fc_vars, au_vars, an_vars, gp_vars>>
    \/ WalkOverflow /\ UNCHANGED <<mr_vars, st_vars, fc_vars, au_vars, an_vars, gp_vars>>

SpecWalk == InitWalk /\ [][NextWalk]_vars

InitOverlay == ANInit /\ STIdle /\ MRIdle /\ GRIdle /\ FCIdle /\ AUIdle /\ GPIdle

NextOverlay ==
    \/ AnnotateCall /\ UNCHANGED <<mr_vars, st_vars, gr_vars, hist_vars, fc_vars, au_vars, gp_vars>>
    \/ OverlayCall /\ UNCHANGED <<mr_vars, st_vars, gr_vars, hist_vars, fc_vars, au_vars, gp_vars>>

SpecOverlay == InitOverlay /\ [][NextOverlay]_vars

InitPath == GPInit /\ STIdle /\ MRIdle /\ GRIdle /\ FCIdle /\ AUIdle /\ ANIdle

NextPath ==
    \/ GPDescend /\ UNCHANGED <<mr_vars, st_vars, gr_vars, hist_vars, fc_vars, au_vars, an_vars>>
    \/ GPBase /\ UNCHANGED <<mr_vars, st_vars, gr_vars, hist_vars, fc_vars, au_vars, an_vars>>
    \/ GPUnwind /\ UNCHANGED <<mr_vars, st_vars, gr_vars, hist_vars, fc_vars, au_vars, an_vars>>

\* A call in progress keeps running: the program has one thread.
SpecPath == InitPath /\ [][NextPath]_vars /\ WF_vars(NextPath)

Init == GRInit /\ STInitHarvest /\ MRIdle /\ FCIdle /\ AUIdle /\ ANIdle /\ GPIdle

Next ==
    \/ GetReviewLinks /\ UNCHANGED <<mr_vars, st_vars, fc_vars, au_vars, an_vars, gp_vars>>
    \/ GetLinkItems /\ UNCHANGED <<mr_vars, st_vars, fc_vars, au_vars, an_vars, gp_vars>>
    \/ LinkItem /\ UNCHANGED <<mr_vars, st_vars, fc_vars, au_vars, an_vars, gp_vars>>
    \/ LinkItemsDone /\ UNCHANGED <<mr_vars, st_vars, fc_vars, au_vars, an_vars, gp_vars>>
    \/ WalkEnter /\ UNCHANGED <<mr_vars, st_vars, fc_vars, au_vars, an_vars, gp_vars>>
    \/ WalkItem /\ UNCHANGED <<mr_vars, st_vars, fc_vars, au_vars, an_vars, gp_vars>>
    \/ WalkReturn /\ UNCHANGED <<mr_vars, st_vars, fc_vars, au_vars, an_vars, gp_vars>>
    \/ LoadAndFilter /\ UNCHANGED <<mr_vars, st_vars, fc_vars, au_vars, an_vars, gp_vars>>
    \/ OrganizeAsset /\ UNCHANGED <<mr_vars, st_vars, fc_vars, au_vars, an_vars, gp_vars>>
    \/ OrganizeSort /\ UNCHANGED <<mr_vars, st_vars, fc_vars, au_vars, an_vars, gp_vars>>
    \/ ProcessAsset /\ UNCHANGED <<mr_vars, st_vars, fc_vars, au_vars, an_vars, gp_vars>>
    \/ Render /\ UNCHANGED <<mr_vars, st_vars, fc_vars, au_vars, an_vars, gp_vars>>
    \/ Crash /\ UNCHANGED <<mr_vars, st_vars, fc_vars, au_vars, an_vars, gp_vars>>
    \/ Rerun /\ UNCHANGED <<mr_vars, st_vars, fc_vars, au_vars, an_vars, gp_vars>>

Spec == Init /\ [][Next]_vars

-----------------------------------------------------------------------------
(* Claims about make_request *)

RECURSIVE SelectKind(_, _)
SelectKind(log, k) ==
    IF log = <<>> THEN <<>>
    ELSE IF Head(log).kind = k
         THEN <<Head(log).t>> \o SelectKind(Tail(log), k)
         ELSE SelectKind(Tail(log), k)

BackoffWaits == SelectKind(mr_log, "backoff")
HttpAttempts == Len(SelectKind(mr_log, "http"))

AllRateLimited == \A i \in 1..Len(mr_resps) : mr_resps[i] = "http429"

C2Case ==
    /\ max_retries = default_max_retries
    /\ retry_delay = default_retry_delay
    /\ mr_pc \notin {"idle", "loop"}
    /\ AllRateLimited

\* C2 (as the code has it): with max_retries = 3, retry_delay = 5 and every
\* attempt answered 429, the call waits 5 and then 20 seconds (retry_delay *
\* 4^attempt for attempts 0 and 1) and the third attempt's error is raised to
\* the caller with no wait after it.
C2_BackoffThenRaise ==
    C2Case => /\ BackoffWaits = <<5, 20>>
              /\ HttpAttempts = 3
              /\ mr_pc = "raised"
              /\ mr_log[Len(mr_log)].kind = "http"

C2_Witness == C2Case /\ Len(mr_resps) = 3

\* C2 as stated: the waits are 5, 20, 80 and the failure is surfaced after the
\* third attempt.
C2_Original ==
    C2Case => /\ BackoffWaits = <<5, 20, 80>>
              /\ HttpAttempts = 3
              /\ mr_pc = "raised"

\* The response of the attempt that ended the call.
LastResp == mr_resps[Len(mr_resps)]

\* C11: a call whose attempt fails without an HTTP status (connection error,
\* timeout) surfaces that failure to the caller only after max_retries
\* attempts have been made.
C11_ConnectionErrorRetried ==
    (mr_pc = "raised" /\ LastResp = "conn") => HttpAttempts = max_retries

NonRateLimitStatus(r) == IsHTTPError(r) /\ StatusCode(r) # 429

\* C12: an attempt answered by an HTTP error status other than 429 is the last
\* thing the call does, on whichever attempt it happens: the call has raised,
\* the log ends with that attempt's request (no backoff wait after it) and no
\* further attempt follows.
C12_OtherStatusRaisesAtOnce ==
    \A i \in 1..Len(mr_resps) :
        NonRateLimitStatus(mr_resps[i]) =>
            /\ i = Len(mr_resps)
            /\ mr_pc = "raised"
            /\ HttpAttempts = i
            /\ mr_log[Len(mr_log)] = EvHttp(i - 1)
            /\ Len(BackoffWaits) = i - 1

\* A 500 on the second attempt of three, after one 429 and its backoff.
C12_Witness ==
    /\ max_retries = default_max_retries
    /\ mr_resps = <<"http429", "http500">>
    /\ mr_pc = "raised"

\* C24: every HTTP request of make_request, first attempt or retry, comes
\* immediately after a wait of request_delay.
C24_DelayBeforeEveryRequest ==
    \A i \in 1..Len(mr_log) :
        mr_log[i].kind = "http" => (i > 1 /\ mr_log[i - 1] = EvDelay)

\* A retry: the second request follows a backoff wait and then the delay.
C24_Witness ==
    /\ Len(mr_resps) = 2
    /\ Len(mr_log) = 5
    /\ mr_log[3].kind = "backoff"
    /\ mr_log[4] = EvDelay
    /\ mr_log[5] = EvHttp(1)

\* C26: with max_retries >= 1 a call makes at most max_retries HTTP attempts
\* and at most max_retries - 1 backoff waits (the loop variable grows with
\* every attempt that does not end the call), and it ends by returning the
\* response of a successful attempt or by raising the error of its last
\* attempt; it never returns None.
C26_BoundedAttemptsNeverNone ==
    max_retries >= 1 =>
        /\ HttpAttempts <= max_retries
        /\ HttpAttempts = Len(mr_resps)
        /\ Len(BackoffWaits) <= max_retries - 1
        /\ mr_pc # "none"
        /\ mr_pc = "loop" => (mr_attempt = Len(mr_resps) /\ mr_attempt < max_retries)
        /\ mr_pc = "returned" => LastResp = "ok"
        /\ mr_pc = "raised" => (LastResp # "ok" /\ mr_log[Len(mr_log)].kind = "http")

\* The last of max_retries attempts was rate limited too, and is raised.
C26_Witness ==
    /\ max_retries >= 2
    /\ mr_pc = "raised"
    /\ HttpAttempts = max_retries
    /\ Len(BackoffWaits) = max_retries - 1
    /\ LastResp = "http429"

-----------------------------------------------------------------------------
(* Claims about get_folder_contents *)

\* The HTTP attempts the call has caused so far.
TotalAttempts == fc_attempts + Len(mr_resps)

\* C25: one call of get_folder_contents hands each candidate endpoint to
\* make_request at most once, causes at most (number of candidates) x
\* max_retries HTTP attempts, and requests nothing once a candidate answered.
C25_NoRetryStorm ==
    /\ \A i, j \in 1..Len(fc_log) : fc_log[i] = fc_log[j] => i = j
    /\ Len(fc_log) <= Len(Endpoints)
    /\ TotalAttempts <= Len(Endpoints) * max_retries
    /\ fc_from > 0 => (fc_pc = "returned" /\ Len(fc_log) = fc_from /\ mr_pc = "idle")

\* Every candidate used up its whole retry budget.
C25_Witness ==
    /\ fc_pc = "returned"
    /\ max_retries >= 2
    /\ fc_attempts = Len(Endpoints) * max_retries


\* The endpoints requested so far are the first Len(fc_log) of the list.
InListOrder == \A i \in 1..Len(fc_log) : i <= Len(Endpoints) /\ fc_log[i] = Endpoints[i]

\* C13: get_folder_contents requests its candidate endpoints strictly in list
\* order; it returns the answer of the first one that succeeds and requests
\* none after it; when all four fail it reports one error and returns the
\* empty list; it never raises.
C13_FirstSuccessInOrder ==
    /\ InListOrder
    /\ fc_pc # "raised"
    /\ fc_errors <= 1
    /\ fc_pc = "returned" =>
         IF fc_from > 0
         THEN /\ Len(fc_log) = fc_from
              /\ fc_result = Children[fc_folder]
              /\ fc_errors = 0
         ELSE /\ Len(fc_log) = Len(Endpoints)
              /\ fc_result = <<>>
              /\ fc_errors = 1

\* The third endpoint answered after the first two failed.
C13_Witness == fc_pc = "returned" /\ fc_from = 3 /\ fc_log = SubSeq(Endpoints, 1, 3)

-----------------------------------------------------------------------------
(* Claims about the checkpoint file *)

EmptyProgress(r) == r.fd = <<>> /\ r.ids = {}

\* The file of the last load was missing, unreadable as a pickle (whichever
\* exception pickle.load raises on it), cut short, no dict, or a dict without
\* one of the two keys load_progress reads.
C7Case == st_loaded.proj # "" /\ st_loaded.cause # "none"

\* C7: load_progress returns the empty report and the empty id set whenever
\* the checkpoint file is missing, corrupt, truncated or lacks the expected
\* keys, and no exception leaves the call.
C7_LoadDefaultsNeverRaises ==
    /\ st_loaded.raised = "none"
    /\ C7Case => EmptyProgress(st_loaded)

\* A file that is no pickle and makes pickle.load raise ValueError was loaded.
C7_Witness ==
    /\ C7Case
    /\ st_loaded.cause = "ValueError"
    /\ st_loaded.raised = "none"
    /\ EmptyProgress(st_loaded)

\* C8: after a save_progress call that was interrupted, load_progress returns
\* the complete checkpoint saved before it or the complete new one (the empty
\* default only where no checkpoint had been saved before).
C8_InterruptedSaveKeepsCheckpoint ==
    (st_loaded.proj # "" /\ st_loaded.cut) =>
        LET p == st_loaded.proj
            got == Checkpoint(st_loaded.fd, st_loaded.ids)
        IN  \/ got = st_new[p]
            \/ st_last[p].has /\ got = st_last[p]
            \/ ~st_last[p].has /\ EmptyProgress(st_loaded)

-----------------------------------------------------------------------------
(* Claims about the walk and the feedback loop *)

\* C1: in one harvest run the contents of every container are fetched at most
\* once, also of a container reached by more than one path (folder A is listed
\* by review link L2 and is a child of R, which review link L1 lists).
C1_ContainerFetchedOnce == \A c \in Folders : fetched[c] <= 1

RECURSIVE AncestorsFrom(_, _)
AncestorsFrom(i, seen) ==
    IF Remote[i].parent_id = NoId \/ Remote[i].parent_id \in seen THEN seen
    ELSE AncestorsFrom(Remote[i].parent_id, seen \cup {Remote[i].parent_id})

Ancestors(i) == AncestorsFrom(i, {})

Descendants(c) == {i \in ItemIds : c \in Ancestors(i)}

\* 'old' in some mix of cases occurs in the name.
NamedOld(c) ==
    LET n == Remote[c].name
    IN  \E i \in 1..(Len(n) - 2) :
            /\ n[i] \in {"o", "O"}
            /\ n[i + 1] \in {"l", "L"}
            /\ n[i + 2] \in {"d", "D"}

Range(s) == {s[i] : i \in 1..Len(s)}

\* The containers a walk started at `root` meets: root and what lies under it.
Under(root) == {root} \cup Descendants(root)

\* C5 (as the code has it): with include_old_folders false, the contents of a
\* container whose name contains 'old' in any case are never requested, and
\* none of its descendants is in the list returned by a walk that started at
\* the container or above it.
C5_OldFoldersExcluded ==
    ~include_old_folders =>
        \A c \in Folders :
            NamedOld(c) =>
                /\ fetched[c] = 0
                /\ \A i \in 1..Len(walks) :
                    c \in Under(walks[i].root) =>
                        Range(walks[i].assets) \cap Descendants(c) = {}
                /\ \A i \in 1..Len(stack) :
                    /\ c \in Under(stack[1].id) =>
                        Range(stack[i].assets) \cap Descendants(c) = {}
                    /\ stack[i].entered => stack[i].id # c

C5_Witness ==
    /\ ~include_old_folders
    /\ \E c \in Folders : NamedOld(c) /\ Descendants(c) \cap {"a3"} # {}
    /\ \E i \in 1..Len(walks) : walks[i].root = "R" /\ walks[i].assets # <<>>
    /\ \E i \in 1..Len(walks) : walks[i].root = "B" /\ walks[i].assets = <<>>

\* C5 as stated: with include_old_folders false, the contents of a container
\* whose name contains 'old' are never requested and none of its descendants
\* is in the list returned by any walk.
C5_Original ==
    ~include_old_folders =>
        \A c \in Folders :
            NamedOld(c) =>
                /\ fetched[c] = 0
                /\ \A i \in 1..Len(walks) :
                    Range(walks[i].assets) \cap Descendants(c) = {}

\* C4: in one run of generate_report the comments of every asset are
\* requested at most once, also of an asset that several review links or
\* folders lead to.
C4_AssetCommentsOnce == \A a \in ItemIds : commented[a] <= 1

\* What load_progress would return from the file now on disk.
PersistedIds == load_progress(files[ProjectId]).ids

\* C6: at every point of the run the persisted processed-id set holds every
\* asset whose processing has completed.
C6_CheckpointAfterEachAsset == completed \subseteq PersistedIds

LoopFinished == pc \in {"done", "error"} /\ err \in {"", "AttributeError"}
Loaded == pc \in {"organize", "process", "done", "error"}

\* C9: once a harvest whose requests all succeeded has completed with no asset
\* left to process, no checkpoint of the project exists, and a later run of
\* the project starts from empty progress.
C9_ClearedOnCompletion ==
    nfail = 0 =>
        /\ LoopFinished => ~files[ProjectId].exists
        /\ (prev_end = "end" /\ Loaded) => (processed_ids = {} /\ feedback_data = <<>>)

\* C10: no asset of the processed-id set that load_progress returned has its
\* comments or its preview requested in the run, whether or not the loaded
\* report has an entry for it.
C10_LoadedIdsNeverFetched ==
    \A a \in processed_ids : commented[a] = 0 /\ previewed[a] = 0

C10_Witness ==
    /\ LoopFinished
    /\ \E a \in processed_ids :
        /\ a \in Range(all_assets)
        /\ a \notin Range(feedback_data)
    /\ \E a \in ItemIds : commented[a] > 0

-----------------------------------------------------------------------------
(* The aggregate of an uninterrupted run without a checkpoint, for C3 *)

RECURSIVE WalkOf(_, _), WalkItemsOf(_, _, _)
WalkOf(flag, id) ==
    IF ~should_process_folder(flag, Remote[id].name) THEN <<>>
    ELSE WalkItemsOf(flag, Children[id], 1)
WalkItemsOf(flag, items, i) ==
    IF i > Len(items) THEN <<>>
    ELSE LET item == Remote[items[i]]
         IN  (IF item.type = "folder" THEN WalkOf(flag, item.id)
              ELSE IF item.type \in AssetTypes THEN <<item.id>>
              ELSE <<>>)
                \o WalkItemsOf(flag, items, i + 1)

RECURSIVE LinkAssetsOf(_, _, _)
LinkAssetsOf(flag, items, i) ==
    IF i > Len(items) THEN <<>>
    ELSE (IF items[i] = NoId THEN <<>>
          ELSE IF Remote[items[i]].type = "folder" THEN WalkOf(flag, items[i])
          ELSE <<items[i]>>)
            \o LinkAssetsOf(flag, items, i + 1)

RECURSIVE AllAssetsOf(_, _)
AllAssetsOf(flag, l) ==
    IF l > Len(ReviewLinks) THEN <<>>
    ELSE LinkAssetsOf(flag, LinkItems[ReviewLinks[l]], 1) \o AllAssetsOf(flag, l + 1)

OrganizedOf(assets) ==
    SortOrganized([i \in 1..Len(assets) |->
        [asset |-> assets[i], folder_path |-> get_folder_path(Remote[assets[i]], {}, NoId)]])

RECURSIVE AggregateOf(_, _, _)
AggregateOf(org, i, ff) ==
    IF i > Len(org) THEN ff
    ELSE LET a    == org[i].asset
             ff1  == WithPath(ff, org[i].folder_path)
             done == ProcessComments(Comments[a], 1)
             thumb == IF Remote[a].thumb THEN <<"field", a>> ELSE <<"preview", a>>
         IN  AggregateOf(org, i + 1,
                 IF done # <<>> THEN AddEntry(ff1, org[i].folder_path, Entry(a, thumb, done))
                 ELSE ff1)

UninterruptedAggregate(flag) == AggregateOf(OrganizedOf(AllAssetsOf(flag, 1)), 1, <<>>)

\* C3: a run restarted after an interruption, all of whose requests succeed,
\* ends with the aggregate of an uninterrupted run, and processes no asset
\* that the interrupted run had already processed.
C3_ResumeEqualsUninterrupted ==
    (prev_end = "crash" /\ nfail = 0) =>
        /\ completed \cap prev_completed = {}
        /\ LoopFinished => folder_feedback = UninterruptedAggregate(include_old_folders)

-----------------------------------------------------------------------------
(* Claims about failed requests and the order of the walk *)

\* get_all_assets has returned.
WalkOver == (pc = "links" /\ rl_idx > Len(rl_links)) \/ Loaded

\* The containers with a failed fetch in this run.
EverFailed == {c \in Folders : fetch_failed[c] > 0}

\* The assets a walk of container c delivers when the containers of `dead`
\* do not answer and all others do.
RECURSIVE Reached(_, _, _)
Reached(flag, c, dead) ==
    IF c \in dead \/ ~should_process_folder(flag, Remote[c].name) THEN {}
    ELSE UNION { LET item == Remote[Children[c][k]]
                 IN  IF item.type = "folder" THEN Reached(flag, item.id, dead)
                     ELSE IF item.type \in AssetTypes THEN {item.id}
                     ELSE {} : k \in 1..Len(Children[c]) }

\* C14: a container whose fetches all failed contributes no asset to a walk
\* through it, and the walk goes on: once get_all_assets has returned (its
\* other requests having succeeded), every asset listed by a review link whose
\* listing did not fail, directly or under containers that answered, is in
\* the result.
C14_FailedSubtreeSkipped ==
    /\ \A i \in 1..Len(walks) :
         \A a \in Range(walks[i].assets) :
            \A c \in Ancestors(a) \cap Under(walks[i].root) :
                fetch_failed[c] < fetched[c]
    /\ (WalkOver /\ ~other_failed) =>
         \A l \in Range(ReviewLinks) \ link_failed :
            \A k \in 1..Len(LinkItems[l]) :
                LET x == LinkItems[l][k]
                IN  x # NoId =>
                      IF Remote[x].type = "folder"
                      THEN Reached(include_old_folders, x, EverFailed)
                              \subseteq Range(all_assets)
                      ELSE x \in Range(all_assets)

\* The listing of L1 and the contents of "Old" failed; the assets of "Cut" and
\* of "New" arrive through the items of L2.
C14_Witness ==
    /\ WalkOver
    /\ ~other_failed
    /\ link_failed = {"L1"}
    /\ fetch_failed["B"] = 1
    /\ all_assets = <<"a1", "a2", "a3">>

\* C15: a walk whose requests all succeed returns the included leaf assets in
\* depth-first order of the children lists; with exclusion active the walk of
\* "Proj" -> ["Cut" -> [a1, a2, a note], "Old" -> ...] fetches the contents of
\* "Proj" and "Cut" only and returns [a1, a2].
C15_DepthFirstOrder ==
    nfail = 0 =>
        /\ \A i \in 1..Len(walks) :
             walks[i].assets = WalkOf(include_old_folders, walks[i].root)
        /\ (~include_old_folders /\ Len(walks) = 1 /\ pc = "items") =>
             /\ walks[1] = [root |-> "R", assets |-> <<"a1", "a2">>]
             /\ \A c \in Folders : fetched[c] = IF c \in {"R", "A"} THEN 1 ELSE 0

\* With old folders included the walk of "Proj" has returned three assets:
\* those of "Cut" first, then the one of "Old"/"New".
C15_Witness ==
    /\ nfail = 0
    /\ include_old_folders
    /\ \E i \in 1..Len(walks) :
        walks[i] = [root |-> "R", assets |-> <<"a1", "a2", "a3">>]

\* C17: a run of generate_report whose requests all succeed ends with the
\* rendered document returned, not in an error.
C17_ReportRendered ==
    (nfail = 0 /\ pc \in {"done", "error"}) => (pc = "done" /\ err = "")

\* C19: the groups of the aggregate are keyed by resolved folder path (one
\* group per path, holding the entries of the assets resolved to it) and
\* within every group the entries are in ascending order of asset name,
\* whatever the order in which the walk returned the assets.
C19_GroupsOrderedByName ==
    \A g \in 1..Len(folder_feedback) :
        LET entries == folder_feedback[g].entries
        IN  /\ \A h \in 1..Len(folder_feedback) :
                 folder_feedback[h].path = folder_feedback[g].path => h = g
            /\ \A i \in 1..Len(entries) :
                 \E k \in 1..Len(organized) :
                    /\ organized[k].asset = entries[i].asset_id
                    /\ organized[k].folder_path = folder_feedback[g].path
            /\ \A i, j \in 1..Len(entries) :
                 i < j => ~StrLess(entries[j].asset_name, entries[i].asset_name)

\* The walk returned "Bravo" before "Alpha"; their group lists "Alpha" first.
C19_Witness ==
    /\ Len(all_assets) >= 2
    /\ Remote[all_assets[1]].name = <<"B", "r", "a", "v", "o">>
    /\ Remote[all_assets[2]].name = <<"A", "l", "p", "h", "a">>
    /\ \E g \in 1..Len(folder_feedback) :
        LET entries == folder_feedback[g].entries
        IN  /\ Len(entries) >= 2
            /\ entries[1].asset_name = <<"A", "l", "p", "h", "a">>
            /\ entries[Len(entries)].asset_name = <<"B", "r", "a", "v", "o">>

\* C20: in one run whose requests all succeed, the details of every container
\* are requested by the folder-path resolution at most once, however many
\* assets have it as parent or ancestor, and assets with the same parent
\* resolve to the same path.
C20_PathMemoized ==
    nfail = 0 =>
        /\ \A c \in ItemIds : looked[c] <= 1
        /\ \A i, j \in 1..Len(organized) :
             Remote[organized[i].asset].parent_id = Remote[organized[j].asset].parent_id
                => organized[i].folder_path = organized[j].folder_path

-----------------------------------------------------------------------------
(* Claims about the entries of the feedback loop *)

\* All entries of the aggregate, whatever their group.
AllEntries ==
    UNION {Range(folder_feedback[g].entries) : g \in 1..Len(folder_feedback)}

TextsOf(comments) == [i \in 1..Len(comments) |-> comments[i].text]

\* The comments of an asset that are well formed, in the order of the API.
WellFormed(c) == c.iso /\ c.author = "dict"
Kept(a) == SelectSeq(Comments[a], WellFormed)

\* C21: a comment whose processing fails is skipped alone: every entry holds
\* all well-formed comments of its asset, in order, and in a run whose
\* requests all succeed every processed asset with at least one well-formed
\* comment has its entry.
C21_OnlyFailedCommentSkipped ==
    /\ \A e \in AllEntries : TextsOf(e.comments) = TextsOf(Kept(e.asset_id))
    /\ nfail = 0 =>
         \A a \in completed :
            Kept(a) # <<>> => \E e \in AllEntries : e.asset_id = a

\* "Bravo" has a comment with a bad timestamp and one without author between
\* two well-formed ones.
C21_Witness ==
    \E e \in AllEntries :
        /\ e.asset_id = "a1"
        /\ Len(Comments["a1"]) = 4
        /\ TextsOf(e.comments) = <<"c1", "c6">>

\* C22: a preview request answered 404 for an asset without thumbnail field
\* yields None without an error being reported, and the asset's entry with
\* its comments is in the aggregate.
C22_PreviewNotFoundIsSilent ==
    \A p \in previews :
        p.outcome = "http404" =>
            /\ ~p.did.raised
            /\ p.did.url = NoUrl
            /\ ~p.did.reported
            /\ \E e \in AllEntries :
                /\ e.asset_id = p.asset
                /\ e.thumbnail_url = NoUrl
                /\ e.comments # <<>>

C22_Witness ==
    \E p \in previews : p.outcome = "http404" /\ ~Remote[p.asset].thumb

\* C27: get_asset_preview raises for no outcome of the preview request, and
\* the asset whose comments were processed keeps its entry.
C27_PreviewNeverRaises ==
    \A p \in previews :
        /\ ~p.did.raised
        /\ \E e \in AllEntries : e.asset_id = p.asset

\* C29: in the aggregate handed to the renderer by a run whose requests all
\* succeeded, every group holds at least one entry and every entry at least
\* one comment.
C29_NoEmptyGroups ==
    (LoopFinished /\ nfail = 0) =>
        /\ \A g \in 1..Len(folder_feedback) : folder_feedback[g].entries # <<>>
        /\ \A e \in AllEntries : e.comments # <<>>

-----------------------------------------------------------------------------
(* Claims about annotations *)

\* The integer v is the value of the fraction q.
IsValue(v, q) == v * q.den = q.num

\* The rectangles among the input, in order: the ones of the delivered data.
Supported(a) == a.type \in AnnotationTypes
InputKept == SelectSeq(an_input, Supported)

\* C23: every rectangle annotation delivered for the report has x, y, width
\* and height as percentages of the frame, value * 100 / dimension, x and
\* width against the frame width and y and height against the frame height.
C23_RectanglesScaled ==
    an_pc \in {"processed", "overlaid"} =>
        \A i \in 1..Len(an_data) :
            an_data[i].type = "rectangle" =>
                /\ IsValue(an_data[i].x, scale_point(GetNum(InputKept[i].x), image_width))
                /\ IsValue(an_data[i].y, scale_point(GetNum(InputKept[i].y), image_height))
                /\ IsValue(an_data[i].width,
                           scale_point(GetNum(InputKept[i].width), image_width))
                /\ IsValue(an_data[i].height,
                           scale_point(GetNum(InputKept[i].height), image_height))

-----------------------------------------------------------------------------
(* Claims about get_folder_path *)

\* The parents fetched by the calls in progress.
FetchedParents == {gp_chain[i] : i \in 2..Len(gp_chain)}

\* The calls in progress were made for pairwise different parents, all of them
\* in folders, so there are never more calls than items plus one.
C28_Progress ==
    /\ \A i, j \in 2..Len(gp_chain) : i # j => gp_chain[i] # gp_chain[j]
    /\ FetchedParents \subseteq gp_folders
    /\ Len(gp_chain) <= Cardinality(ItemIds) + 1
    /\ gp_why # "overflow"
    /\ gp_pc = "returned" =>
           gp_path = get_folder_path(Remote[gp_chain[1]], {}, gp_fail)

\* A step of a call whose parent id is already in folders.
C28_KnownEnds ==
    gp_pc = "call" /\ Innermost.parent_id \in gp_folders =>
        /\ gp_chain' = gp_chain
        /\ gp_folders' = gp_folders
        /\ gp_path' = RootPath

\* A recursive step.
C28_StepAddsNew ==
    Len(gp_chain') > Len(gp_chain) =>
        /\ Innermost.parent_id \notin gp_folders
        /\ gp_folders' = gp_folders \cup {Innermost.parent_id}

\* C28: get_folder_path returns for every item, also when parent_id links form
\* a cycle: every recursive step adds a parent id that was not in folders, a
\* parent id already in folders ends the recursion with "/", and the call
\* returns the path of the chain of parents up to that point.
C28_PathTerminates ==
    /\ []C28_Progress
    /\ [][C28_KnownEnds /\ C28_StepAddsNew]_vars
    /\ <>(gp_pc = "returned")

\* The call for a folder on a cycle of parents has returned.
C28_Witness ==
    /\ gp_pc = "returned"
    /\ gp_chain = <<"Y">>
    /\ gp_fail = NoId
    /\ gp_why = "known"
    /\ gp_path = <<"/", "/">> \o Remote["Y"].name \o <<"/">> \o Remote["X"].name

-----------------------------------------------------------------------------
(* Claims about process_comment_author *)

\* The chain name -> display_name -> full_name -> email over one object, None
\* when no field has a value.
ChainOf(fields) ==
    Or(Get(fields, "name"),
       Or(Get(fields, "display_name"), Or(Get(fields, "full_name"), Get(fields, "email"))))

\* The anonymous-user sub-object first (when present), then the author itself,
\* then 'Unknown User'.
ResolvedAuthor(comment) ==
    LET a == comment.author
    IN  Or(IF a.anonymous_user.exists THEN ChainOf(a.anonymous_user.fields) ELSE None,
           Or(ChainOf(a.fields), UnknownUser))

\* C18: the returned author name is the first non-empty value of the chain
\* over the anonymous-user sub-object and then over the author, 'Unknown User'
\* when there is none; it is never empty or None.
C18_AuthorResolved ==
    au_pc = "returned" =>
        /\ au_result = ResolvedAuthor(au_comment)
        /\ Truthy(au_result)

-----------------------------------------------------------------------------
(* Claims about process_folder on its own *)

\* C16: a container that is already being walked is not descended into again,
\* so the walk ends without exhausting the call stack.
C16_VisitedNotReentered ==
    /\ \A i, j \in 1..Len(stack) : i < j => stack[i].id # stack[j].id
    /\ err # "RecursionError"

=============================================================================
